---- MODULE Spec2Model ----
(***************************************************************************)
(* Model of cursor-cloud-sync: CursorSyncManager (cursor_sync.py) and      *)
(* AutoSyncManager (auto_sync.py).                                         *)
(*                                                                         *)
(* The local filesystem is a function from paths (sequences of path        *)
(* components) to nodes; the operators below model the os / shutil /       *)
(* zipfile calls the code makes by what those calls do.                    *)
(***************************************************************************)
EXTENDS Integers, Sequences, FiniteSets, TLC

VARIABLES
    fs,                   \* local filesystem: path -> node
    cursor_config_paths,  \* self.cursor_config_paths: name -> configured path
    now,                  \* wall clock in whole seconds (time.time(), datetime.now())
    tmp,                  \* temporary files (tempfile.NamedTemporaryFile(delete=False)): id -> zip content
    next_tmp,             \* next unused temporary file id
    rst,                  \* the running restore_from_backup call: program counter, loop index, locals
    hist,                 \* history of the current restore run (what was on disk when it started, what it did)
    config,               \* AutoSyncManager.config and what its paths point at
    drive,                \* the Google Drive account: folders and files
    service,              \* sync_manager.service: TRUE once authenticate() built it
    sched,                \* auto_sync.py: program counter and locals of start_auto_sync / sync_once
    chist                 \* history of the sync cycles (remote calls issued, failures met)

localVars == <<fs, cursor_config_paths, now, tmp, next_tmp, rst, hist>>
remoteVars == <<config, drive, service, sched, chist>>
vars == <<fs, cursor_config_paths, now, tmp, next_tmp, rst, hist,
          config, drive, service, sched, chist>>

-----------------------------------------------------------------------------
(* Bounds of the model *)

MaxData == 2       \* file contents are 1..MaxData
MaxTime == 2       \* the clock runs 1..MaxTime
MaxTmp == 1        \* temporary files created in one behaviour
MaxRestores == 2   \* restore_from_backup calls in one behaviour
MaxCycles == 2     \* sync cycles started in one behaviour
MaxKeep == 2       \* max_backups is 1..MaxKeep
MaxInitial == 3    \* backups the Drive folder holds at the start
MaxCalls == 3      \* methods called directly on one CursorSyncManager

-----------------------------------------------------------------------------
(* Filesystem: os.path, shutil *)

DirNode == [dir |-> TRUE, data |-> 0]
FileNode(c) == [dir |-> FALSE, data |-> c]
EmptyTree == [q \in {} |-> DirNode]

IsPrefix(p, q) == Len(p) <= Len(q) /\ SubSeq(q, 1, Len(p)) = p

\* A configured path string: its components and whether it ends in a separator.
CfgPath(comps, trailing) == [comps |-> comps, trailing |-> trailing]

\* os.path.exists: a path ending in a separator exists only as a directory.
Exists(f, cp) == cp.comps \in DOMAIN f /\ (cp.trailing => f[cp.comps].dir)
IsFile(f, cp) == Exists(f, cp) /\ ~f[cp.comps].dir
IsDir(f, cp) == cp.comps \in DOMAIN f /\ f[cp.comps].dir

\* The tree rooted at path p, as relative path -> node (<<>> is the root itself).
Subtree(f, p) ==
    LET under == {r \in DOMAIN f : IsPrefix(p, r)}
        rel(r) == SubSeq(r, Len(p) + 1, Len(r))
    IN  [q \in {rel(r) : r \in under} |-> f[p \o q]]

\* shutil.rmtree(p) on a directory: everything at or under p goes.
RmTree(f, p) == [q \in {r \in DOMAIN f : ~IsPrefix(p, r)} |-> f[q]]

\* Write the relative tree t at path p (the nodes of t replace what is there).
Graft(f, p, t) ==
    [q \in DOMAIN f \cup {p \o r : r \in DOMAIN t} |->
        IF \E r \in DOMAIN t : q = p \o r
        THEN t[SubSeq(q, Len(p) + 1, Len(q))]
        ELSE f[q]]

\* os.path.basename / os.path.dirname of a configured path string.
Basename(cp) == IF cp.trailing THEN "" ELSE cp.comps[Len(cp.comps)]
Dirname(cp) == IF cp.trailing THEN cp.comps ELSE SubSeq(cp.comps, 1, Len(cp.comps) - 1)

-----------------------------------------------------------------------------
(* Path registry *)

\* The location names, in the order the code's dictionaries hold them.
KeyOrder == <<"settings", "keybindings", "snippets", "extensions", "workspaceStorage">>
Keys == {KeyOrder[i] : i \in 1..Len(KeyOrder)}

\* The locations that are single files; the others are directories.
FileKeys == {"settings", "keybindings"}

\* Platform defaults: files without, directories with a trailing separator.
GetDefaultCursorPaths ==
    [k \in Keys |->
        IF k \in FileKeys THEN CfgPath(<<k \o ".json">>, FALSE)
        ELSE CfgPath(<<k>>, TRUE)]

\* The cursor_paths sections of config.json the model starts from: the flag
\* custom_enabled and a path for none, one or all of the names.
CustomPath(k) == IF k \in FileKeys THEN CfgPath(<<k \o ".json">>, FALSE)
                 ELSE CfgPath(<<k>>, FALSE)
ConfigFiles ==
    {[custom_enabled |-> e, paths |-> [k \in ks |-> CustomPath(k)]] :
        e \in BOOLEAN, ks \in {{}, {"snippets"}, Keys}}

\* _get_cursor_config_paths: the custom paths alone when any is supplied.
GetCursorConfigPaths(config_file) ==
    IF config_file.custom_enabled /\ DOMAIN config_file.paths # {}
    THEN config_file.paths
    ELSE GetDefaultCursorPaths

\* _get_default_cursor_paths raises on a platform it has no defaults for; the
\* constructor reaches it only when the custom paths are not used.
GetCursorConfigPathsRaises(config_file, platform_supported) ==
    /\ ~platform_supported
    /\ ~(config_file.custom_enabled /\ DOMAIN config_file.paths # {})

\* The names of self.cursor_config_paths in dictionary order.
PathItems == SelectSeq(KeyOrder, LAMBDA k : k \in DOMAIN cursor_config_paths)

-----------------------------------------------------------------------------
(* What a config location can hold: nothing, a file, or a directory tree *)

Contents == 1..MaxData

TreeOptions ==
    {EmptyTree}
    \cup {(<<>> :> FileNode(c)) : c \in Contents}
    \cup {(<<>> :> DirNode) @@ (<<"x.json">> :> FileNode(1))}
    \cup {(<<>> :> DirNode) @@ (<<"x.json">> :> FileNode(MaxData))
            @@ (<<"sub">> :> DirNode) @@ (<<"sub", "y.json">> :> FileNode(1))
            @@ (<<"empty">> :> DirNode)}

\* What the model lets each location hold at the start: settings and snippets
\* take every option, keybindings is missing or a file, the other two are missing.
LocationOptions(k) ==
    IF k \in {"settings", "snippets"} THEN TreeOptions
    ELSE IF k = "keybindings" THEN {EmptyTree, (<<>> :> FileNode(1))}
    ELSE {EmptyTree}
InitialTrees == {choice \in [Keys -> TreeOptions] : \A k \in Keys : choice[k] \in LocationOptions(k)}

\* The filesystem in which location k holds the tree choice[k].
MakeFs(choice) ==
    LET at(k) == GetDefaultCursorPaths[k].comps
        paths == UNION {{at(k) \o r : r \in DOMAIN choice[k]} : k \in Keys}
    IN  [p \in paths |->
            LET k == CHOOSE k \in Keys : IsPrefix(at(k), p)
            IN  choice[k][SubSeq(p, Len(at(k)) + 1, Len(p))]]

-----------------------------------------------------------------------------
(* Snapshot builder: create_backup_archive *)

\* _get_cursor_version: best effort, 0 stands for 'unknown'.
GetCursorVersion(f, paths) ==
    IF "settings" \in DOMAIN paths /\ IsFile(f, paths["settings"])
    THEN f[paths["settings"].comps].data
    ELSE 0

\* A builder that writes an empty entry for a location that is not there.
LocationEntriesNoSkip(f, name, cp) ==
    IF ~Exists(f, cp) THEN (<<name, "missing">> :> 0)
    ELSE IF IsFile(f, cp) THEN (<<name, Basename(cp)>> :> f[cp.comps].data)
    ELSE LET t == Subtree(f, cp.comps)
             files == {r \in DOMAIN t : ~t[r].dir}
         IN  [a \in {<<name>> \o r : r \in files} |-> t[SubSeq(a, 2, Len(a))].data]

\* The entries zipf.write adds for location name: arcname -> content.
LocationEntries(f, name, cp) ==
    IF ~Exists(f, cp) THEN EmptyTree
    ELSE IF IsFile(f, cp) THEN (<<name, Basename(cp)>> :> f[cp.comps].data)
    ELSE LET t == Subtree(f, cp.comps)
             files == {r \in DOMAIN t : ~t[r].dir}
         IN  [a \in {<<name>> \o r : r \in files} |-> t[SubSeq(a, 2, Len(a))].data]

RECURSIVE AllEntries(_, _, _)
AllEntries(f, paths, names) ==
    IF names = <<>> THEN EmptyTree
    ELSE LocationEntries(f, Head(names), paths[Head(names)])
            @@ AllEntries(f, paths, Tail(names))

\* The elements of a finite set in some order (os.walk lists a directory in the
\* order the operating system returns its entries).
RECURSIVE SeqOf(_)
SeqOf(S) ==
    IF S = {} THEN <<>>
    ELSE LET x == CHOOSE x \in S : TRUE IN <<x>> \o SeqOf(S \ {x})

\* os.walk over tree t: the relative paths of its files, each once.
WalkFiles(t) == SeqOf({r \in DOMAIN t : ~t[r].dir})

\* A builder that passes the file's own path as the name in the archive.
LocationNamesFromPath(f, name, cp) ==
    IF ~Exists(f, cp) THEN <<>>
    ELSE IF IsFile(f, cp) THEN <<cp.comps>>
    ELSE LET w == WalkFiles(Subtree(f, cp.comps))
         IN  [i \in 1..Len(w) |-> cp.comps \o w[i]]

\* The arcnames of the zipf.write calls for location name, in call order:
\* f'{config_name}/{basename}' for a file, config_name joined with the path
\* relative to config_path for each file of a directory.
LocationNames(f, name, cp) ==
    IF ~Exists(f, cp) THEN <<>>
    ELSE IF IsFile(f, cp) THEN << <<name, Basename(cp)>> >>
    ELSE LET w == WalkFiles(Subtree(f, cp.comps))
         IN  [i \in 1..Len(w) |-> <<name>> \o w[i]]

RECURSIVE AllNames(_, _, _)
AllNames(f, paths, names) ==
    IF names = <<>> THEN <<>>
    ELSE LocationNames(f, Head(names), paths[Head(names)])
            \o AllNames(f, paths, Tail(names))

MetadataName == <<"metadata.json">>

\* The zip file create_backup_archive writes at time t: names is the list of
\* entry names as written, the metadata entry last; entries is the content by name.
BuildArchive(f, paths, names, t) ==
    [valid |-> TRUE,
     names |-> Append(AllNames(f, paths, names), MetadataName),
     entries |-> AllEntries(f, paths, names),
     meta |-> [timestamp |-> t, cursor_version |-> GetCursorVersion(f, paths)]]

\* A file that is not a zip archive.
CorruptFile == [valid |-> FALSE, names |-> <<>>, entries |-> EmptyTree,
                meta |-> [timestamp |-> 0, cursor_version |-> 0]]

\* zipf.extractall(temp_dir): the tree under temp_dir.
ExtractAll(z) ==
    LET names == DOMAIN z.entries
        dirs == UNION {{SubSeq(a, 1, k) : k \in 1..(Len(a) - 1)} : a \in names}
    IN  [p \in names \cup dirs \cup {MetadataName} |->
            IF p \in names THEN FileNode(z.entries[p])
            ELSE IF p = MetadataName THEN FileNode(0)
            ELSE DirNode]

Idle == rst.pc \in {"idle", "returned", "raised"}

\* What is left of the zip when a zipf.write raised; nothing reads it again.
PartialZip == [valid |-> TRUE, names |-> <<>>, entries |-> EmptyTree,
               meta |-> [timestamp |-> 0, cursor_version |-> 0]]

\* Backup files a caller may hand to restore_from_backup besides the temporary
\* files of this process: an archive built by this tool on another machine
\* (the spec's scenario), a hand-made archive whose entry for a location is a
\* single top-level file, and a file that is no archive. 0 is a path with no file.
OtherMachineArchive ==
    [valid |-> TRUE,
     names |-> <<<<"settings", "settings.json">>, <<"snippets", "x.json">>, MetadataName>>,
     entries |-> (<<"settings", "settings.json">> :> 1) @@ (<<"snippets", "x.json">> :> 1),
     meta |-> [timestamp |-> 0, cursor_version |-> 0]]
ForeignArchive ==
    [valid |-> TRUE, names |-> <<<<"settings">>, MetadataName>>,
     entries |-> (<<"settings">> :> 2),
     meta |-> [timestamp |-> 0, cursor_version |-> 0]]
GivenFiles == (-1 :> OtherMachineArchive) @@ (-2 :> ForeignArchive) @@ (-3 :> CorruptFile)

\* The file at a path, for the paths that hold one.
Files == [p \in DOMAIN tmp |-> tmp[p].zip] @@ GivenFiles

\* create_backup_archive called on its own; the zip is written to a new temporary
\* file, which is left behind, its path lost, when a zipf.write raises.
CreateBackupArchive ==
    /\ Idle
    /\ next_tmp <= MaxTmp
    /\ \E ok \in BOOLEAN :
        tmp' = tmp @@ (next_tmp :>
                IF ok THEN [zip |-> BuildArchive(fs, cursor_config_paths, PathItems, now),
                            returned |-> TRUE]
                ELSE [zip |-> PartialZip, returned |-> FALSE])
    /\ next_tmp' = next_tmp + 1
    /\ UNCHANGED <<fs, cursor_config_paths, now, rst, hist>>
    /\ UNCHANGED remoteVars

-----------------------------------------------------------------------------
(* Restore executor: restore_from_backup *)

\* f"{config_path}.backup_{int(time.time())}"
BackupCurrent(cp, t) ==
    LET suffix == ".backup_" \o ToString(t)
        n == Len(cp.comps)
    IN  IF cp.trailing
        THEN CfgPath(cp.comps \o <<suffix>>, FALSE)
        ELSE CfgPath([cp.comps EXCEPT ![n] = @ \o suffix], FALSE)

RestIdle == [pc |-> "idle", i |-> 0, temp_dir |-> EmptyTree, path |-> 0]
NoHist == [pre |-> EmptyTree, rollback |-> EmptyTree, restored |-> {},
           touched |-> {}, failed |-> {}, archived |-> {}, env_error |-> FALSE,
           runs |-> 0]

\* A restore that clears the first location before it looks at the backup file.
RestoreFromBackupClearFirst(backup_path) ==
    /\ Idle
    /\ hist.runs < MaxRestores
    /\ hist' = [NoHist EXCEPT !.pre = fs, !.runs = hist.runs + 1]
    /\ rst' = [RestIdle EXCEPT !.pc = "raised", !.path = backup_path]
    /\ fs' = IF PathItems # <<>> /\ IsDir(fs, cursor_config_paths[PathItems[1]])
             THEN RmTree(fs, cursor_config_paths[PathItems[1]].comps)
             ELSE fs
    /\ UNCHANGED <<cursor_config_paths, now, tmp, next_tmp>>
    /\ UNCHANGED remoteVars

\* Lines 310-315: the checks on the backup file and the extraction, before the loop.
RestoreFromBackup(backup_path) ==
    /\ Idle
    /\ hist.runs < MaxRestores
    /\ hist' = [NoHist EXCEPT
            !.pre = fs, !.runs = hist.runs + 1,
            !.archived = IF backup_path \in DOMAIN Files /\ Files[backup_path].valid
                         THEN {k \in Keys : <<k>> \in DOMAIN ExtractAll(Files[backup_path])}
                         ELSE {}]
    /\ IF backup_path \notin DOMAIN Files
       THEN rst' = [RestIdle EXCEPT !.pc = "raised", !.path = backup_path]
       ELSE IF ~Files[backup_path].valid
       THEN rst' = [RestIdle EXCEPT !.pc = "raised", !.path = backup_path]
       ELSE rst' = [pc |-> "loop", i |-> 1, path |-> backup_path,
                    temp_dir |-> ExtractAll(Files[backup_path])]
    /\ UNCHANGED <<fs, cursor_config_paths, now, tmp, next_tmp>>
    /\ UNCHANGED remoteVars

RestoreStart ==
    \E backup_path \in {0} \cup DOMAIN GivenFiles \cup {p \in DOMAIN tmp : tmp[p].returned} :
        RestoreFromBackup(backup_path)

\* shutil.copy2(src file content, dst): into dst when dst is a directory.
Copy2(f, c, dst, srcname) ==
    IF IsDir(f, dst) THEN Graft(f, dst.comps \o <<srcname>>, (<<>> :> FileNode(c)))
    ELSE Graft(f, dst.comps, (<<>> :> FileNode(c)))
Copy2Raises(f, dst, srcname) ==
    IF IsDir(f, dst) THEN IsDir(f, CfgPath(dst.comps \o <<srcname>>, FALSE))
    ELSE \/ dst.trailing
         \/ Dirname(dst) # <<>> /\ ~IsDir(f, CfgPath(Dirname(dst), FALSE))

\* shutil.copytree(src tree, dst): dst must not exist.
CopyTree(f, t, dst) == Graft(f, dst.comps, t)
CopyTreeRaises(f, t, dst) == dst.comps \in DOMAIN f \/ ~t[<<>>].dir

\* A loop that copies the current settings before it looks for the entry.
RestoreBackupCurrentCopyFirst ==
    /\ rst.pc = "loop"
    /\ rst.i <= Len(PathItems)
    /\ LET config_name == PathItems[rst.i]
           config_path == cursor_config_paths[config_name]
           backup_current == BackupCurrent(config_path, now)
           src == Subtree(fs, config_path.comps)
           archived == <<config_name>> \in DOMAIN rst.temp_dir
           next == IF archived THEN [rst EXCEPT !.pc = "apply"] ELSE [rst EXCEPT !.i = @ + 1]
       IN  IF ~Exists(fs, config_path)
           THEN /\ rst' = next
                /\ hist' = [hist EXCEPT !.touched = @ \cup {config_name}]
                /\ UNCHANGED fs
           ELSE IF IF IsFile(fs, config_path)
                   THEN Copy2Raises(fs, backup_current, Basename(config_path))
                   ELSE CopyTreeRaises(fs, src, backup_current)
           THEN /\ rst' = [rst EXCEPT !.pc = "raised"]
                /\ hist' = [hist EXCEPT !.touched = @ \cup {config_name},
                                        !.failed = @ \cup {config_name}]
                /\ UNCHANGED fs
           ELSE /\ fs' = IF IsFile(fs, config_path)
                         THEN Copy2(fs, src[<<>>].data, backup_current, Basename(config_path))
                         ELSE CopyTree(fs, src, backup_current)
                /\ rst' = next
                /\ hist' = [hist EXCEPT !.touched = @ \cup {config_name},
                                        !.rollback = @ @@ (config_name :> backup_current.comps)]
    /\ UNCHANGED <<cursor_config_paths, now, tmp, next_tmp>>
    /\ UNCHANGED remoteVars

\* Lines 318-328: the loop head and the copy of the current settings.
RestoreBackupCurrent ==
    /\ rst.pc = "loop"
    /\ rst.i <= Len(PathItems)
    /\ LET config_name == PathItems[rst.i]
           config_path == cursor_config_paths[config_name]
           backup_current == BackupCurrent(config_path, now)
           src == Subtree(fs, config_path.comps)
       IN  IF <<config_name>> \notin DOMAIN rst.temp_dir
           THEN /\ rst' = [rst EXCEPT !.i = @ + 1]
                /\ UNCHANGED <<fs, hist>>
           ELSE IF ~Exists(fs, config_path)
           THEN /\ rst' = [rst EXCEPT !.pc = "apply"]
                /\ hist' = [hist EXCEPT !.touched = @ \cup {config_name}]
                /\ UNCHANGED fs
           ELSE \E io_error \in BOOLEAN :
                LET raises == \/ io_error
                              \/ IF IsFile(fs, config_path)
                                 THEN Copy2Raises(fs, backup_current, Basename(config_path))
                                 ELSE CopyTreeRaises(fs, src, backup_current)
                IN  IF raises
                    THEN /\ rst' = [rst EXCEPT !.pc = "raised"]
                         /\ hist' = [hist EXCEPT !.touched = @ \cup {config_name},
                                                 !.failed = @ \cup {config_name},
                                                 !.env_error = io_error]
                         /\ UNCHANGED fs
                    ELSE /\ fs' = IF IsFile(fs, config_path)
                                  THEN Copy2(fs, src[<<>>].data, backup_current,
                                             Basename(config_path))
                                  ELSE CopyTree(fs, src, backup_current)
                         /\ rst' = [rst EXCEPT !.pc = "apply"]
                         /\ hist' = [hist EXCEPT
                                !.touched = @ \cup {config_name},
                                !.rollback = @ @@ (config_name :> backup_current.comps)]
    /\ UNCHANGED <<cursor_config_paths, now, tmp, next_tmp>>
    /\ UNCHANGED remoteVars

\* os.makedirs(p, exist_ok=True) where the parent of p exists.
MakeDirs(f, p) == IF p = <<>> \/ p \in DOMAIN f THEN f ELSE Graft(f, p, (<<>> :> DirNode))
MakeDirsRaises(f, p) == p \in DOMAIN f /\ ~f[p].dir

\* Lines 331-337 for an archived entry that is a single file.
ApplyFile(f, c, config_name, config_path) ==
    Copy2(MakeDirs(f, Dirname(config_path)), c, config_path, config_name)
ApplyFileRaises(f, config_name, config_path) ==
    \/ MakeDirsRaises(f, Dirname(config_path))
    \/ Copy2Raises(MakeDirs(f, Dirname(config_path)), config_path, config_name)

\* Lines 334-337 for an archived entry that is a directory tree.
RemoveExisting(f, config_path) ==
    IF Exists(f, config_path) THEN RmTree(f, config_path.comps) ELSE f
ApplyDir(f, t, config_path) == CopyTree(RemoveExisting(f, config_path), t, config_path)
ApplyDirRaises(f, t, config_path) ==
    \/ IsFile(f, config_path)                          \* rmtree of a regular file
    \/ CopyTreeRaises(RemoveExisting(f, config_path), t, config_path)

\* Lines 330-339: restore one location from the extracted archive.
RestoreApply ==
    /\ rst.pc = "apply"
    /\ LET config_name == PathItems[rst.i]
           config_path == cursor_config_paths[config_name]
           entry == Subtree(rst.temp_dir, <<config_name>>)
           isfile == ~entry[<<>>].dir
           raises == IF isfile THEN ApplyFileRaises(fs, config_name, config_path)
                     ELSE ApplyDirRaises(fs, entry, config_path)
       IN  \/ /\ ~raises
              /\ fs' = IF isfile
                       THEN ApplyFile(fs, entry[<<>>].data, config_name, config_path)
                       ELSE ApplyDir(fs, entry, config_path)
              /\ rst' = [rst EXCEPT !.pc = "loop", !.i = @ + 1]
              /\ hist' = [hist EXCEPT !.restored = @ \cup {config_name}]
           \/ /\ raises
              /\ fs' = IF ~isfile /\ ~IsFile(fs, config_path)
                       THEN RemoveExisting(fs, config_path)
                       ELSE fs
              /\ rst' = [rst EXCEPT !.pc = "raised"]
              /\ hist' = [hist EXCEPT !.failed = @ \cup {config_name}]
           \/ /\ ~raises                 \* the copy itself fails with an I/O error
              /\ fs' = IF isfile THEN MakeDirs(fs, Dirname(config_path))
                       ELSE RemoveExisting(fs, config_path)
              /\ rst' = [rst EXCEPT !.pc = "raised"]
              /\ hist' = [hist EXCEPT !.failed = @ \cup {config_name}, !.env_error = TRUE]
    /\ UNCHANGED <<cursor_config_paths, now, tmp, next_tmp>>
    /\ UNCHANGED remoteVars

\* The loop is over: the temporary directory is removed and the call returns.
RestoreReturn ==
    /\ rst.pc = "loop"
    /\ rst.i > Len(PathItems)
    /\ rst' = [rst EXCEPT !.pc = "returned", !.temp_dir = EmptyTree]
    /\ UNCHANGED <<fs, cursor_config_paths, now, tmp, next_tmp, hist>>
    /\ UNCHANGED remoteVars

-----------------------------------------------------------------------------
(* Environment *)

\* The clock is read at the loop head and by the build only.
Tick ==
    /\ rst.pc # "apply"
    /\ now < MaxTime
    /\ now' = now + 1
    /\ UNCHANGED <<fs, cursor_config_paths, tmp, next_tmp, rst, hist>>
    /\ UNCHANGED remoteVars

-----------------------------------------------------------------------------
(* Remote store client: Google Drive through self.service *)

\* upload_to_drive's default folder_name.
DefaultFolderName == "Cursor Backups"

\* f'cursor_backup_{timestamp}.zip', the timestamp to the second.
BackupFilename(t) == "cursor_backup_" \o ToString(t) \o ".zip"

\* The Drive query operator: name contains 'pat'.
Contains(name, pat) ==
    \E i \in 1..(Len(name) - Len(pat) + 1) : SubSeq(name, i, i + Len(pat) - 1) = pat

\* files().list(q="name='...' and mimeType='...folder'"): the ids of the folders
\* with that name; a folder's id is its index in drive.folders.
FoldersNamed(d, folder_name) ==
    SelectSeq([i \in 1..Len(d.folders) |-> i], LAMBDA i : d.folders[i] = folder_name)

\* A lookup that creates a folder on every call.
GetOrCreateFolderAlwaysCreate(d, folder_name) ==
    [id |-> Len(d.folders) + 1,
     drive |-> [d EXCEPT !.folders = Append(@, folder_name)],
     created |-> TRUE]

\* _get_or_create_folder when no remote call fails: the folder id and the drive after.
GetOrCreateFolder(d, folder_name) ==
    LET folders == FoldersNamed(d, folder_name)
    IN  IF folders # <<>>
        THEN [id |-> folders[1], drive |-> d, created |-> FALSE]
        ELSE [id |-> Len(d.folders) + 1,
              drive |-> [d EXCEPT !.folders = Append(@, folder_name)],
              created |-> TRUE]

\* A query without the name condition.
BackupsInAnyName(d, folder_id) == {r \in d.files : r.parent = folder_id}

\* The records q="parents='<folder_id>' and name contains 'cursor_backup'" selects.
BackupsIn(d, folder_id) ==
    {r \in d.files : r.parent = folder_id /\ Contains(r.name, "cursor_backup")}

\* orderBy='createdTime desc'
RECURSIVE OrderByCreatedTimeDesc(_)
OrderByCreatedTimeDesc(records) ==
    IF records = {} THEN <<>>
    ELSE LET newest == CHOOSE r \in records :
                            \A o \in records : o.createdTime <= r.createdTime
         IN  <<newest>> \o OrderByCreatedTimeDesc(records \ {newest})

ListBackups(d, folder_id) == OrderByCreatedTimeDesc(BackupsIn(d, folder_id))

\* files().create(body={'name', 'parents'}, media_body=...): Drive gives the new
\* file the next id and the next creation time.
CreateFile(d, display_name, folder_id, zip) ==
    [d EXCEPT !.seq = @ + 1,
              !.files = @ \cup {[id |-> d.seq + 1, name |-> display_name,
                                 parent |-> folder_id, createdTime |-> d.seq + 1,
                                 zip |-> zip]}]

\* files().delete(fileId=...)
DeleteFile(d, file_id) == [d EXCEPT !.files = {r \in @ : r.id # file_id}]

-----------------------------------------------------------------------------
(* Retention pruner and sync cycle: auto_sync.py *)

\* A pruner that slices one record too early: files[max_backups - 1:].
FilesToDeleteOffByOne(files, max_backups) ==
    IF Len(files) > max_backups THEN SubSeq(files, max_backups, Len(files)) ELSE <<>>

\* A pruner that deletes the surplus records oldest first.
FilesToDeleteOldestFirst(files, max_backups) ==
    IF Len(files) > max_backups
    THEN [j \in 1..(Len(files) - max_backups) |-> files[Len(files) + 1 - j]]
    ELSE <<>>

\* files[max_backups:]
FilesToDelete(files, max_backups) ==
    IF Len(files) > max_backups THEN SubSeq(files, max_backups + 1, Len(files)) ELSE <<>>

\* Where control goes when sync_once has returned: main with --once exits,
\* start_auto_sync sleeps one interval.
AfterReturn == IF config.once THEN "exit" ELSE "sleep"

\* A scheduler loop without the except Exception clause.
AfterEscapeUnhandled == "crashed"

\* Where control goes when an exception leaves sync_once: start_auto_sync catches
\* it, logs it and sleeps; main with --once has no handler.
AfterEscape == IF config.once THEN "crashed" ELSE "sleep_err"

\* Where control goes from the except clause of sync_once (lines 129-135).
AfterExcept == IF config.notification_settings THEN AfterReturn ELSE AfterEscape

\* A sync_once that prunes whether or not sync_up raised.
AfterSyncUpAlwaysPrune(ok) == "prune"

\* Where sync_once goes when sync_up raised / returned (lines 117-120).
AfterSyncUp(ok) == IF ok THEN "prune" ELSE "except"

\* One step of a cycle that can fail: a remote request, authenticate, the build.
Call(op, phase, ok) == [op |-> op, phase |-> phase, ok |-> ok]
NoPrune == [state |-> "none", folder |-> 0, pre |-> {}, failed |-> {}, listed |-> FALSE]
NoCycle == [calls |-> <<>>, log |-> <<>>, result |-> "none", prune |-> NoPrune,
            folder_calls |-> <<>>, op |-> "none", authed |-> FALSE, uploaded |-> 0]

\* What a completed _get_or_create_folder call was asked and what it returned.
FolderCall(folder_name, found) ==
    [name |-> folder_name, id |-> found.id, created |-> found.created]

\* interrupted_at is the place the operator's interrupt arrived at, "none" before.
NoChist == [cycle |-> NoCycle, all_ok |-> TRUE, interrupted |-> FALSE,
            interrupted_at |-> "none", upload_folder |-> 0]

Log(msg) == chist' = [chist EXCEPT !.cycle.log = Append(@, msg)]

\* A start_auto_sync that enters the loop without reading the auto_sync flag.
StartIgnoringFlag ==
    /\ sched.pc = "start"
    /\ sched' = [sched EXCEPT !.pc = "begin"]
    /\ UNCHANGED <<config, drive, service, chist>>
    /\ UNCHANGED localVars

\* main / start_auto_sync up to the loop (lines 137-147).
Start ==
    /\ sched.pc = "start"
    /\ IF ~config.once /\ ~config.auto_sync
       THEN /\ sched' = [sched EXCEPT !.pc = "disabled"]
            /\ Log("Automatic sync is disabled")
       ELSE /\ sched' = [sched EXCEPT !.pc = "begin"]
            /\ UNCHANGED chist
    /\ UNCHANGED <<config, drive, service>>
    /\ UNCHANGED localVars

\* sync_once lines 102-111: a new CursorSyncManager, then the credentials check.
SyncOnceBegin ==
    /\ sched.pc = "begin"
    /\ sched.cycles < MaxCycles
    /\ service' = FALSE
    /\ cursor_config_paths' =
            IF GetCursorConfigPathsRaises(config.cursor_paths, config.platform_supported)
            THEN cursor_config_paths
            ELSE GetCursorConfigPaths(config.cursor_paths)
    /\ IF GetCursorConfigPathsRaises(config.cursor_paths, config.platform_supported)
       THEN /\ sched' = [sched EXCEPT !.pc = "except", !.cycles = @ + 1]
            /\ chist' = [chist EXCEPT !.cycle = NoCycle]
       ELSE IF ~config.credentials_exist
       THEN /\ sched' = [sched EXCEPT !.pc = AfterReturn, !.cycles = @ + 1]
            /\ chist' = [chist EXCEPT
                    !.cycle = [NoCycle EXCEPT !.log = <<"Credentials file does not exist">>,
                                              !.result = "False"],
                    !.all_ok = FALSE]
       ELSE /\ sched' = [sched EXCEPT !.pc = "auth", !.cycles = @ + 1]
            /\ chist' = [chist EXCEPT !.cycle = NoCycle]
    /\ UNCHANGED <<config, drive>>
    /\ UNCHANGED <<fs, now, tmp, next_tmp, rst, hist>>

\* A token file kept inside the snippets directory.
TokenPathInLocation == CfgPath(<<"snippets", "token.json">>, FALSE)

\* token_path: 'token.json' in the working directory.
TokenPath == CfgPath(<<"token.json">>, FALSE)

\* authenticate lines 149-161 when the flow succeeds: the token file holds the
\* credentials afterwards, written now or found valid.
WriteToken(f) == Graft(f, TokenPath.comps, (<<>> :> FileNode(1)))

\* sync_manager.authenticate(); it raises when the token cannot be refreshed
\* and the authorisation flow fails.
Authenticate ==
    /\ sched.pc = "auth"
    /\ \E ok \in BOOLEAN :
        /\ service' = ok
        /\ fs' = IF ok THEN WriteToken(fs) ELSE fs
        /\ sched' = [sched EXCEPT !.pc = IF ok THEN "build" ELSE "except"]
        /\ chist' = [chist EXCEPT
                !.cycle.calls = Append(@, Call("authenticate", "auth", ok))]
    /\ UNCHANGED <<config, drive>>
    /\ UNCHANGED <<cursor_config_paths, now, tmp, next_tmp, rst, hist>>

\* sync_up line 346: create_backup_archive.
SyncUpBuild ==
    /\ sched.pc = "build"
    /\ \E ok \in BOOLEAN :
        /\ tmp' = tmp @@ (next_tmp :>
                IF ok THEN [zip |-> BuildArchive(fs, cursor_config_paths, PathItems, now),
                            returned |-> TRUE]
                ELSE [zip |-> PartialZip, returned |-> FALSE])
        /\ sched' = [sched EXCEPT !.pc = IF ok THEN "upload" ELSE "except",
                                  !.backup_path = IF ok THEN next_tmp ELSE 0,
                                  !.backup_filename = BackupFilename(now)]
        /\ chist' = [chist EXCEPT
                !.cycle.calls = Append(@, Call("create_backup_archive", "build", ok))]
    /\ next_tmp' = next_tmp + 1
    /\ UNCHANGED <<fs, cursor_config_paths, now, rst, hist>>
    /\ UNCHANGED <<config, drive, service>>

\* sync_up lines 350-353: upload_to_drive into its default folder, then the
\* removal of the temporary archive.
SyncUpUpload ==
    /\ sched.pc = "upload"
    /\ LET found == GetOrCreateFolder(drive, DefaultFolderName)
           lookup(ok) == <<Call("folders.list", "upload", ok)>>
           create(ok) == IF found.created THEN <<Call("folders.create", "upload", ok)>>
                         ELSE <<>>
       IN  \/ /\ drive' = drive                       \* the folder lookup fails
              /\ chist' = [chist EXCEPT !.cycle.calls = @ \o lookup(FALSE),
                                        !.all_ok = FALSE]
              /\ sched' = [sched EXCEPT !.pc = AfterSyncUp(FALSE)]
              /\ UNCHANGED tmp
           \/ /\ found.created                        \* the folder creation fails
              /\ drive' = drive
              /\ chist' = [chist EXCEPT
                      !.cycle.calls = @ \o lookup(TRUE) \o create(FALSE),
                      !.all_ok = FALSE]
              /\ sched' = [sched EXCEPT !.pc = AfterSyncUp(FALSE)]
              /\ UNCHANGED tmp
           \/ /\ drive' = found.drive                 \* the upload fails
              /\ chist' = [chist EXCEPT
                      !.cycle.calls = @ \o lookup(TRUE) \o create(TRUE)
                                        \o <<Call("files.create", "upload", FALSE)>>,
                      !.cycle.folder_calls = Append(@, FolderCall(DefaultFolderName, found)),
                      !.all_ok = FALSE]
              /\ sched' = [sched EXCEPT !.pc = AfterSyncUp(FALSE)]
              /\ UNCHANGED tmp
           \/ /\ drive' = CreateFile(found.drive, sched.backup_filename, found.id,
                                     tmp[sched.backup_path].zip)
              /\ chist' = [chist EXCEPT
                      !.cycle.calls = @ \o lookup(TRUE) \o create(TRUE)
                                        \o <<Call("files.create", "upload", TRUE)>>,
                      !.cycle.folder_calls = Append(@, FolderCall(DefaultFolderName, found)),
                      !.cycle.uploaded = found.drive.seq + 1,
                      !.upload_folder = found.id]
              /\ tmp' = [q \in DOMAIN tmp \ {sched.backup_path} |-> tmp[q]]
              /\ sched' = [sched EXCEPT !.pc = AfterSyncUp(TRUE), !.backup_path = 0]
    /\ UNCHANGED <<fs, cursor_config_paths, now, next_tmp, rst, hist>>
    /\ UNCHANGED <<config, service>>

\* _cleanup_old_backups lines 75-92: find the folder, list its backups, pick the
\* ones to delete. Any failure is logged and ends the pass.
CleanupList ==
    /\ sched.pc = "prune"
    /\ LET folder_name == config.backup_folder_name
           found == GetOrCreateFolder(drive, folder_name)
           lookup(ok) == <<Call("folders.list", "prune", ok)>>
           create(ok) == IF found.created THEN <<Call("folders.create", "prune", ok)>>
                         ELSE <<>>
           files == ListBackups(found.drive, found.id)
           files_to_delete == FilesToDelete(files, config.max_backups)
           pass == [NoPrune EXCEPT !.folder = found.id,
                                   !.pre = BackupsIn(found.drive, found.id)]
           error == "Error occurred while cleaning up old backups"
       IN  \/ /\ drive' = drive                       \* the folder lookup fails
              /\ chist' = [chist EXCEPT !.cycle.calls = @ \o lookup(FALSE),
                                        !.cycle.log = Append(@, error),
                                        !.cycle.prune = [pass EXCEPT !.state = "done"],
                                        !.all_ok = FALSE]
              /\ sched' = [sched EXCEPT !.pc = "finish"]
           \/ /\ found.created                        \* the folder creation fails
              /\ drive' = drive
              /\ chist' = [chist EXCEPT
                      !.cycle.calls = @ \o lookup(TRUE) \o create(FALSE),
                      !.cycle.log = Append(@, error),
                      !.cycle.prune = [pass EXCEPT !.state = "done"],
                      !.all_ok = FALSE]
              /\ sched' = [sched EXCEPT !.pc = "finish"]
           \/ /\ drive' = found.drive                 \* the listing fails
              /\ chist' = [chist EXCEPT
                      !.cycle.calls = @ \o lookup(TRUE) \o create(TRUE)
                                        \o <<Call("files.list", "prune", FALSE)>>,
                      !.cycle.folder_calls = Append(@, FolderCall(folder_name, found)),
                      !.cycle.log = Append(@, error),
                      !.cycle.prune = [pass EXCEPT !.state = "done"],
                      !.all_ok = FALSE]
              /\ sched' = [sched EXCEPT !.pc = "finish"]
           \/ /\ drive' = found.drive
              /\ chist' = [chist EXCEPT
                      !.cycle.calls = @ \o lookup(TRUE) \o create(TRUE)
                                        \o <<Call("files.list", "prune", TRUE)>>,
                      !.cycle.folder_calls = Append(@, FolderCall(folder_name, found)),
                      !.cycle.prune = [pass EXCEPT
                          !.listed = TRUE,
                          !.state = IF files_to_delete = <<>> THEN "done" ELSE "running"]]
              /\ sched' = [sched EXCEPT
                      !.pc = IF files_to_delete = <<>> THEN "finish" ELSE "delete",
                      !.files_to_delete = files_to_delete]
    /\ UNCHANGED <<config, service>>
    /\ UNCHANGED localVars

\* _cleanup_old_backups lines 93-98: one iteration of the delete loop. A failed
\* delete leaves the loop through the except clause of the whole pass.
CleanupDelete ==
    /\ sched.pc = "delete"
    /\ LET file_to_delete == Head(sched.files_to_delete)
           rest == Tail(sched.files_to_delete)
       IN  \/ /\ file_to_delete \in drive.files
              /\ drive' = DeleteFile(drive, file_to_delete.id)
              /\ chist' = [chist EXCEPT
                      !.cycle.calls = Append(@, Call("files.delete", "prune", TRUE)),
                      !.cycle.log = Append(@, "Deleted old backup"),
                      !.cycle.prune.state = IF rest = <<>> THEN "done" ELSE "running"]
              /\ sched' = [sched EXCEPT !.pc = IF rest = <<>> THEN "finish" ELSE "delete",
                                        !.files_to_delete = rest]
           \/ /\ drive' = drive
              /\ chist' = [chist EXCEPT
                      !.cycle.calls = Append(@, Call("files.delete", "prune", FALSE)),
                      !.cycle.log = Append(@, "Error occurred while cleaning up old backups"),
                      !.cycle.prune.state = "done",
                      !.cycle.prune.failed = @ \cup {file_to_delete.id},
                      !.all_ok = FALSE]
              /\ sched' = [sched EXCEPT !.pc = "finish", !.files_to_delete = <<>>]
    /\ UNCHANGED <<config, service>>
    /\ UNCHANGED localVars

\* sync_once lines 122-127: the success log entry, the notification, return True.
\* Reading a missing notification_settings section raises inside the try block.
SyncOnceFinish ==
    /\ sched.pc = "finish"
    /\ IF config.notification_settings
       THEN /\ sched' = [sched EXCEPT !.pc = AfterReturn]
            /\ chist' = [chist EXCEPT !.cycle.log = Append(@, "Sync completed successfully"),
                                      !.cycle.result = "True"]
       ELSE /\ sched' = [sched EXCEPT !.pc = "except"]
            /\ chist' = [chist EXCEPT !.cycle.log = Append(@, "Sync completed successfully")]
    /\ UNCHANGED <<config, drive, service>>
    /\ UNCHANGED localVars

\* sync_once lines 129-135: the except clause.
SyncOnceExcept ==
    /\ sched.pc = "except"
    /\ sched' = [sched EXCEPT !.pc = AfterExcept]
    /\ chist' = [chist EXCEPT
            !.cycle.log = IF config.notification_settings \/ config.once
                          THEN Append(@, "Sync failed")
                          ELSE @ \o <<"Sync failed", "Automatic sync error occurred">>,
            !.cycle.result = IF config.notification_settings THEN "False" ELSE "raised",
            !.all_ok = FALSE]
    /\ UNCHANGED <<config, drive, service>>
    /\ UNCHANGED localVars

\* time.sleep(interval) at line 150 or line 156 runs to its end.
Sleep ==
    /\ sched.pc \in {"sleep", "sleep_err"}
    /\ sched.cycles < MaxCycles
    /\ sched' = [sched EXCEPT !.pc = "begin"]
    /\ now' = now + 1
    /\ UNCHANGED <<fs, cursor_config_paths, tmp, next_tmp, rst, hist>>
    /\ UNCHANGED <<config, drive, service, chist>>

InCycle == sched.pc \in {"begin", "auth", "build", "upload", "prune", "delete",
                         "finish", "except"}

\* A loop that takes up the next cycle when the interrupt arrives in a sleep.
InterruptResumes ==
    /\ InCycle \/ sched.pc \in {"sleep", "sleep_err"}
    /\ sched' = [sched EXCEPT !.pc = IF sched.pc \in {"sleep", "sleep_err"} THEN "begin"
                                     ELSE "stopped"]
    /\ chist' = [chist EXCEPT !.interrupted = TRUE, !.interrupted_at = sched.pc]
    /\ UNCHANGED <<config, drive, service>>
    /\ UNCHANGED localVars

\* The operator interrupts the process (KeyboardInterrupt). Inside the try block
\* of start_auto_sync it is caught and ends the loop; in the sleep of the
\* except clause (line 156), and under --once, nothing catches it.
Interrupt ==
    /\ InCycle \/ sched.pc \in {"sleep", "sleep_err"}
    /\ IF config.once \/ sched.pc = "sleep_err"
       THEN /\ sched' = [sched EXCEPT !.pc = "crashed"]
            /\ chist' = [chist EXCEPT !.interrupted = TRUE, !.interrupted_at = sched.pc]
       ELSE /\ sched' = [sched EXCEPT !.pc = "stopped"]
            /\ chist' = [chist EXCEPT !.interrupted = TRUE, !.interrupted_at = sched.pc,
                                      !.cycle.log = Append(@, "Automatic sync stopped")]
    /\ UNCHANGED <<config, drive, service>>
    /\ UNCHANGED localVars

-----------------------------------------------------------------------------
(* The automatic sync process over one Drive account *)

\* The configurations auto_sync.py is started with.
Configs ==
    [once : BOOLEAN, auto_sync : BOOLEAN,
     max_backups : 1..MaxKeep,
     backup_folder_name : {DefaultFolderName, "Archive"},
     notification_settings : BOOLEAN,
     platform_supported : BOOLEAN,
     credentials_exist : BOOLEAN,
     cursor_paths : ConfigFiles]

\* auto_sync.py is not running.
NoConfig == [once |-> TRUE, auto_sync |-> FALSE, max_backups |-> 1,
             backup_folder_name |-> "Cursor Backups", notification_settings |-> TRUE,
             platform_supported |-> TRUE, credentials_exist |-> FALSE,
             cursor_paths |-> [custom_enabled |-> FALSE, paths |-> EmptyTree]]

\* The archive an earlier run uploaded as record i.
EarlierArchive(i) ==
    [OtherMachineArchive EXCEPT
        !.entries[<<"settings", "settings.json">>] = ((i - 1) % MaxData) + 1,
        !.meta.timestamp = i]

\* A Drive account whose folder folder_name holds k backups of earlier runs and
\* a file that is no backup, next to a folder of another program that holds a
\* file named like a backup; with k = 0 the account is empty.
InitialDrive(folder_name, k) ==
    [folders |-> IF k = 0 THEN <<>> ELSE <<folder_name, "Shared">>,
     files |-> IF k = 0 THEN {}
               ELSE {[id |-> i, name |-> BackupFilename(0), parent |-> 1,
                      createdTime |-> i, zip |-> EarlierArchive(i)] : i \in 1..k}
                    \cup {[id |-> k + 1, name |-> "notes.txt", parent |-> 1,
                           createdTime |-> k + 1, zip |-> CorruptFile],
                          [id |-> k + 2, name |-> BackupFilename(0), parent |-> 2,
                           createdTime |-> k + 2, zip |-> EarlierArchive(k + 2)]},
     seq |-> IF k = 0 THEN 0 ELSE k + 2]

\* The locations on the machine that syncs: a settings file, a snippets directory.
HomeFs ==
    MakeFs([k \in Keys |->
        IF k = "settings" THEN (<<>> :> FileNode(1))
        ELSE IF k = "snippets" THEN (<<>> :> DirNode) @@ (<<"x.json">> :> FileNode(1))
        ELSE EmptyTree])

Init ==
    /\ fs = HomeFs
    /\ cursor_config_paths = EmptyTree      \* no CursorSyncManager yet
    /\ now = 1
    /\ tmp = EmptyTree
    /\ next_tmp = 1
    /\ rst = RestIdle
    /\ hist = NoHist
    /\ config \in Configs
    /\ \E k \in 0..MaxInitial : drive = InitialDrive(config.backup_folder_name, k)
    /\ service = FALSE
    /\ sched = [pc |-> "start", cycles |-> 0, backup_path |-> 0, backup_filename |-> "",
                files_to_delete |-> <<>>]
    /\ chist = NoChist

Next ==
    \/ Start
    \/ SyncOnceBegin
    \/ Authenticate
    \/ SyncUpBuild
    \/ SyncUpUpload
    \/ CleanupList
    \/ CleanupDelete
    \/ SyncOnceFinish
    \/ SyncOnceExcept
    \/ Sleep
    \/ Interrupt

Spec == Init /\ [][Next]_vars

-----------------------------------------------------------------------------
(* The methods of CursorSyncManager called directly on one manager *)

\* The name of a temporary file, which upload_to_drive uses when it is given no
\* custom_filename.
TmpName(p) == "tmp" \o ToString(p) \o ".zip"

\* The history of one method call: its name and whether self.service was set.
Called(op) == [NoCycle EXCEPT !.op = op, !.authed = service]

\* authenticate (lines 145-164): sets self.service and returns True, or raises.
ClientAuthenticate ==
    /\ sched.pc = "off"
    /\ sched.cycles < MaxCalls
    /\ \E ok \in BOOLEAN :
        /\ service' = (ok \/ service)
        /\ fs' = IF ok THEN WriteToken(fs) ELSE fs
        /\ chist' = [chist EXCEPT
                !.cycle = [Called("authenticate") EXCEPT
                    !.calls = <<Call("authenticate", "auth", ok)>>,
                    !.result = IF ok THEN "True" ELSE "raised"]]
    /\ sched' = [sched EXCEPT !.cycles = @ + 1]
    /\ UNCHANGED <<config, drive>>
    /\ UNCHANGED <<cursor_config_paths, now, tmp, next_tmp, rst, hist>>

\* upload_to_drive(file_path, custom_filename) with the default folder_name
\* (lines 217-241).
UploadToDrive ==
    /\ sched.pc = "off"
    /\ sched.cycles < MaxCalls
    /\ \E file_path \in {-1} \cup {p \in DOMAIN tmp : tmp[p].returned},
          custom_filename \in {"", BackupFilename(now)} :
        LET found == GetOrCreateFolder(drive, DefaultFolderName)
            lookup(ok) == <<Call("folders.list", "upload", ok)>>
            create(ok) == IF found.created THEN <<Call("folders.create", "upload", ok)>>
                          ELSE <<>>
            display_name == IF custom_filename # "" THEN custom_filename
                            ELSE TmpName(file_path)
            call == Called("upload_to_drive")
        IN  IF ~service
            THEN /\ drive' = drive
                 /\ chist' = [chist EXCEPT !.cycle = [call EXCEPT !.result = "raised"]]
            ELSE \/ /\ drive' = drive                  \* the folder lookup fails
                    /\ chist' = [chist EXCEPT !.cycle =
                            [call EXCEPT !.calls = lookup(FALSE), !.result = "raised"]]
                 \/ /\ found.created                   \* the folder creation fails
                    /\ drive' = drive
                    /\ chist' = [chist EXCEPT !.cycle =
                            [call EXCEPT !.calls = lookup(TRUE) \o create(FALSE),
                                         !.result = "raised"]]
                 \/ /\ drive' = found.drive            \* the upload fails
                    /\ chist' = [chist EXCEPT !.cycle =
                            [call EXCEPT
                                !.calls = lookup(TRUE) \o create(TRUE)
                                          \o <<Call("files.create", "upload", FALSE)>>,
                                !.folder_calls = <<FolderCall(DefaultFolderName, found)>>,
                                !.result = "raised"]]
                 \/ /\ drive' = CreateFile(found.drive, display_name, found.id,
                                           Files[file_path])
                    /\ chist' = [chist EXCEPT !.cycle =
                            [call EXCEPT
                                !.calls = lookup(TRUE) \o create(TRUE)
                                          \o <<Call("files.create", "upload", TRUE)>>,
                                !.folder_calls = <<FolderCall(DefaultFolderName, found)>>,
                                !.result = "id"]]
    /\ sched' = [sched EXCEPT !.cycles = @ + 1]
    /\ UNCHANGED <<config, service>>
    /\ UNCHANGED localVars


\* A download that takes the record the listing returns last.
LatestFileOldest(files) == files[Len(files)]

\* latest_file = files[0] (line 291).
LatestFile(files) == files[1]

\* download_latest_backup with the default folder_name (lines 271-306), as the
\* step op of the caller. The temporary file exists from line 295 on and stays
\* when a chunk fails.
DownloadLatest(op) ==
    LET found == GetOrCreateFolder(drive, DefaultFolderName)
        lookup(ok) == <<Call("folders.list", "download", ok)>>
        create(ok) == IF found.created THEN <<Call("folders.create", "download", ok)>>
                      ELSE <<>>
        files == ListBackups(found.drive, found.id)
        call == Called(op)
        listed == [call EXCEPT
                     !.calls = lookup(TRUE) \o create(TRUE)
                               \o <<Call("files.list", "download", TRUE)>>,
                     !.folder_calls = <<FolderCall(DefaultFolderName, found)>>]
    IN  IF ~service
        THEN /\ drive' = drive
             /\ chist' = [chist EXCEPT !.cycle = [call EXCEPT !.result = "raised"]]
             /\ UNCHANGED <<tmp, next_tmp>>
        ELSE \/ /\ drive' = drive                   \* the folder lookup fails
                /\ chist' = [chist EXCEPT !.cycle =
                        [call EXCEPT !.calls = lookup(FALSE), !.result = "raised"]]
                /\ UNCHANGED <<tmp, next_tmp>>
             \/ /\ found.created                    \* the folder creation fails
                /\ drive' = drive
                /\ chist' = [chist EXCEPT !.cycle =
                        [call EXCEPT !.calls = lookup(TRUE) \o create(FALSE),
                                     !.result = "raised"]]
                /\ UNCHANGED <<tmp, next_tmp>>
             \/ /\ drive' = found.drive             \* the listing fails
                /\ chist' = [chist EXCEPT !.cycle =
                        [call EXCEPT
                            !.calls = lookup(TRUE) \o create(TRUE)
                                      \o <<Call("files.list", "download", FALSE)>>,
                            !.folder_calls = <<FolderCall(DefaultFolderName, found)>>,
                            !.result = "raised"]]
                /\ UNCHANGED <<tmp, next_tmp>>
             \/ /\ files = <<>>                     \* no backup: returns None
                /\ drive' = found.drive
                /\ chist' = [chist EXCEPT !.cycle = [listed EXCEPT !.result = "None"]]
                /\ UNCHANGED <<tmp, next_tmp>>
             \/ /\ files # <<>>                     \* a chunk of the download fails
                /\ drive' = found.drive
                /\ chist' = [chist EXCEPT !.cycle =
                        [listed EXCEPT !.calls = @ \o <<Call("files.get_media", "download", FALSE)>>,
                                       !.result = "raised"]]
                /\ tmp' = tmp @@ (next_tmp :> [zip |-> PartialZip, returned |-> FALSE])
                /\ next_tmp' = next_tmp + 1
             \/ /\ files # <<>>
                /\ drive' = found.drive
                /\ chist' = [chist EXCEPT !.cycle =
                        [listed EXCEPT !.calls = @ \o <<Call("files.get_media", "download", TRUE)>>,
                                       !.result = "path"]]
                /\ tmp' = tmp @@ (next_tmp :> [zip |-> LatestFile(files).zip,
                                               returned |-> TRUE])
                /\ next_tmp' = next_tmp + 1

\* download_latest_backup called on its own.
DownloadLatestBackup ==
    /\ sched.pc = "off"
    /\ sched.cycles < MaxCalls
    /\ ~service \/ next_tmp <= MaxTmp
    /\ DownloadLatest("download_latest_backup")
    /\ sched' = [sched EXCEPT !.cycles = @ + 1]
    /\ UNCHANGED <<config, service>>
    /\ UNCHANGED <<fs, cursor_config_paths, now, rst, hist>>

\* validate_paths (lines 60-90): os.path.exists, isfile, isdir and os.access on
\* each registered path; it returns what it found.
ValidatePaths ==
    /\ sched.pc = "off"
    /\ sched.cycles < MaxCalls
    /\ chist' = [chist EXCEPT !.cycle =
            [Called("validate_paths") EXCEPT
                !.result = IF \A k \in DOMAIN cursor_config_paths :
                                    Exists(fs, cursor_config_paths[k])
                             THEN "all exist" ELSE "some missing"]]
    /\ sched' = [sched EXCEPT !.cycles = @ + 1]
    /\ UNCHANGED <<config, drive, service>>
    /\ UNCHANGED localVars

\* create_backup_archive called on the manager whose other methods are called here.
ClientBuild == sched.pc = "off" /\ CreateBackupArchive

InitClient ==
    /\ fs = HomeFs
    /\ cursor_config_paths = GetDefaultCursorPaths
    /\ now = 1
    /\ tmp = EmptyTree
    /\ next_tmp = 1
    /\ rst = RestIdle
    /\ hist = NoHist
    /\ \E c \in BOOLEAN : config = [NoConfig EXCEPT !.credentials_exist = c]
    /\ \E k \in 0..MaxInitial : drive = InitialDrive(DefaultFolderName, k)
    /\ service = FALSE
    /\ sched = [pc |-> "off", cycles |-> 0, backup_path |-> 0, backup_filename |-> "",
                files_to_delete |-> <<>>]
    /\ chist = NoChist

NextClient ==
    \/ ClientBuild
    \/ ValidatePaths
    \/ ClientAuthenticate
    \/ UploadToDrive
    \/ DownloadLatestBackup

\* Either program against one Drive account: auto_sync.py, or the methods of
\* CursorSyncManager called directly.
InitRemote == Init \/ InitClient
NextRemote == Next \/ NextClient
SpecRemote == InitRemote /\ [][NextRemote]_vars

-----------------------------------------------------------------------------
(* sync_down: download the latest backup, restore it, remove the download *)

\* sync_down lines 362-364: download_latest_backup, and the test of what it
\* returned. With a path the call goes on to restore it; with None it returns.
SyncDownDownload ==
    /\ sched.pc = "off"
    /\ sched.cycles < MaxCalls
    /\ hist.runs < MaxRestores
    /\ ~service \/ next_tmp <= MaxTmp
    /\ DownloadLatest("sync_down")
    /\ sched' = IF chist'.cycle.result = "path"
                THEN [sched EXCEPT !.cycles = @ + 1, !.pc = "down", !.backup_path = next_tmp]
                ELSE [sched EXCEPT !.cycles = @ + 1]
    /\ UNCHANGED <<config, service>>
    /\ UNCHANGED <<fs, cursor_config_paths, now, rst, hist>>

\* sync_down line 366: restore_from_backup(backup_path). The call has not been
\* made yet while the running restore is not one of the downloaded file.
SyncDownRestore ==
    /\ sched.pc = "down"
    /\ rst.path # sched.backup_path
    /\ RestoreFromBackup(sched.backup_path)

\* sync_down lines 369-371: restore_from_backup returned, the download is removed.
SyncDownUnlink ==
    /\ sched.pc = "down"
    /\ rst.path = sched.backup_path
    /\ rst.pc = "returned"
    /\ tmp' = [q \in DOMAIN tmp \ {sched.backup_path} |-> tmp[q]]
    /\ sched' = [sched EXCEPT !.pc = "off", !.backup_path = 0]
    /\ chist' = [chist EXCEPT !.cycle.result = "returned"]
    /\ UNCHANGED <<config, drive, service>>
    /\ UNCHANGED <<fs, cursor_config_paths, now, next_tmp, rst, hist>>

\* restore_from_backup raised: the exception leaves sync_down before line 369.
SyncDownRaised ==
    /\ sched.pc = "down"
    /\ rst.path = sched.backup_path
    /\ rst.pc = "raised"
    /\ sched' = [sched EXCEPT !.pc = "off", !.backup_path = 0]
    /\ chist' = [chist EXCEPT !.cycle.result = "raised"]
    /\ UNCHANGED <<config, drive, service>>
    /\ UNCHANGED localVars

\* A Drive account whose backup folder holds a file that is no backup and nothing else.
NoBackupDrive ==
    LET d == InitialDrive(DefaultFolderName, 1)
    IN  [d EXCEPT !.files = {r \in @ : r.id # 1}]

\* One manager, on a machine whose locations are all missing or as in HomeFs,
\* that syncs down from a Drive account other machines have uploaded to.
InitDown ==
    /\ fs \in {HomeFs, EmptyTree}
    /\ cursor_config_paths = GetDefaultCursorPaths
    /\ now = 1
    /\ tmp = EmptyTree
    /\ next_tmp = 1
    /\ rst = RestIdle
    /\ hist = NoHist
    /\ config = [NoConfig EXCEPT !.credentials_exist = TRUE]
    /\ drive \in {InitialDrive(DefaultFolderName, k) : k \in 0..MaxInitial}
                    \cup {NoBackupDrive}
    /\ service = FALSE
    /\ sched = [pc |-> "off", cycles |-> 0, backup_path |-> 0, backup_filename |-> "",
                files_to_delete |-> <<>>]
    /\ chist = NoChist

NextDown ==
    \/ ClientAuthenticate
    \/ SyncDownDownload
    \/ SyncDownRestore
    \/ RestoreBackupCurrent
    \/ RestoreApply
    \/ RestoreReturn
    \/ SyncDownUnlink
    \/ SyncDownRaised
    \/ Tick

SpecDown == InitDown /\ [][NextDown]_vars

-----------------------------------------------------------------------------
(* Two auto_sync.py processes on two machines, one Drive account *)

\* In this specification sched and chist hold one record per process: sched[i]
\* is the position of process i in its cycle, chist[i] the history of its
\* pruning passes. Each machine has authenticated and builds its own archive;
\* only the requests the processes send to the shared account are steps.
Instances == {1, 2}

PeerIdle == [pc |-> "begin", cycles |-> 0, files_to_delete |-> <<>>]
PeerHist == [surplus |-> {}, deletes |-> <<>>, passes |-> 0, env_error |-> FALSE,
             uploaded |-> 0]

\* sync_up of process i (lines 346-353): the upload into the default folder.
\* A failed upload ends the cycle without a pruning pass (sync_once line 117).
PeerSyncUp(i) ==
    /\ sched[i].pc = "begin"
    /\ sched[1].cycles + sched[2].cycles < MaxCycles
    /\ LET found == GetOrCreateFolder(drive, DefaultFolderName)
       IN  \/ /\ drive' = CreateFile(found.drive, BackupFilename(now), found.id,
                                     BuildArchive(HomeFs, GetDefaultCursorPaths, KeyOrder, now))
              /\ sched' = [sched EXCEPT ![i].pc = "prune", ![i].cycles = @ + 1]
              /\ chist' = [chist EXCEPT ![i].uploaded = found.drive.seq + 1]
           \/ /\ drive' = drive
              /\ sched' = [sched EXCEPT ![i].cycles = @ + 1]
              /\ chist' = [chist EXCEPT ![i].env_error = TRUE]
    /\ UNCHANGED <<config, service>>
    /\ UNCHANGED localVars

\* _cleanup_old_backups of process i, lines 75-92: the listing and the choice
\* of the records to delete.
PeerCleanupList(i) ==
    /\ sched[i].pc = "prune"
    /\ LET found == GetOrCreateFolder(drive, config.backup_folder_name)
           files == ListBackups(found.drive, found.id)
           files_to_delete == FilesToDelete(files, config.max_backups)
           ids == {files_to_delete[j].id : j \in DOMAIN files_to_delete}
       IN  \/ /\ drive' = found.drive
              /\ sched' = [sched EXCEPT
                      ![i].pc = IF files_to_delete = <<>> THEN "begin" ELSE "delete",
                      ![i].files_to_delete = files_to_delete]
              /\ chist' = [chist EXCEPT
                      ![i].surplus = ids,
                      ![i].passes = IF files_to_delete = <<>> THEN @ + 1 ELSE @]
           \/ /\ drive' = drive                        \* the listing fails
              /\ sched' = [sched EXCEPT ![i].pc = "begin"]
              /\ chist' = [chist EXCEPT ![i].surplus = {}, ![i].passes = @ + 1,
                                        ![i].env_error = TRUE]
    /\ UNCHANGED <<config, service>>
    /\ UNCHANGED localVars

\* _cleanup_old_backups of process i, lines 93-98: one delete request. Drive
\* answers a delete of a record that is gone with an error, which ends the pass
\* like any other failure.
PeerCleanupDelete(i) ==
    /\ sched[i].pc = "delete"
    /\ LET file_to_delete == Head(sched[i].files_to_delete)
           rest == Tail(sched[i].files_to_delete)
           request(ok) == [id |-> file_to_delete.id, ok |-> ok,
                           gone |-> file_to_delete \notin drive.files]
       IN  IF file_to_delete \notin drive.files
           THEN /\ drive' = drive
                /\ sched' = [sched EXCEPT ![i].pc = "begin", ![i].files_to_delete = <<>>]
                /\ chist' = [chist EXCEPT ![i].deletes = Append(@, request(FALSE)),
                                          ![i].passes = @ + 1]
           ELSE \/ /\ drive' = DeleteFile(drive, file_to_delete.id)
                   /\ sched' = [sched EXCEPT
                           ![i].pc = IF rest = <<>> THEN "begin" ELSE "delete",
                           ![i].files_to_delete = rest]
                   /\ chist' = [chist EXCEPT
                           ![i].deletes = Append(@, request(TRUE)),
                           ![i].passes = IF rest = <<>> THEN @ + 1 ELSE @]
                \/ /\ drive' = drive                   \* the request fails on its way
                   /\ sched' = [sched EXCEPT ![i].pc = "begin", ![i].files_to_delete = <<>>]
                   /\ chist' = [chist EXCEPT ![i].deletes = Append(@, request(FALSE)),
                                             ![i].passes = @ + 1,
                                             ![i].env_error = TRUE]
    /\ UNCHANGED <<config, service>>
    /\ UNCHANGED localVars

\* Both processes run with the same config.json; the backup folder exists.
InitTwo ==
    /\ fs = HomeFs
    /\ cursor_config_paths = GetDefaultCursorPaths
    /\ now = 1
    /\ tmp = EmptyTree
    /\ next_tmp = 1
    /\ rst = RestIdle
    /\ hist = NoHist
    /\ \E m \in 1..MaxKeep :
            config = [NoConfig EXCEPT !.once = FALSE, !.auto_sync = TRUE,
                                      !.credentials_exist = TRUE, !.max_backups = m]
    /\ \E k \in 1..MaxInitial : drive = InitialDrive(DefaultFolderName, k)
    /\ service = TRUE
    /\ sched = [i \in Instances |-> PeerIdle]
    /\ chist = [i \in Instances |-> PeerHist]

NextTwo ==
    \E i \in Instances :
        \/ PeerSyncUp(i)
        \/ PeerCleanupList(i)
        \/ PeerCleanupDelete(i)

SpecTwo == InitTwo /\ [][NextTwo]_vars

-----------------------------------------------------------------------------
(* Claims about pruning and the sync cycle *)

\* The n records with the latest createdTime.
NewestN(records, n) ==
    {r \in records : Cardinality({o \in records : o.createdTime > r.createdTime}) < n}

Min(a, b) == IF a < b THEN a ELSE b

\* The pruning pass of the current cycle is over and none of its remote calls failed.
CleanPassDone ==
    /\ chist.cycle.prune.state = "done"
    /\ \A i \in DOMAIN chist.cycle.calls :
            chist.cycle.calls[i].phase = "prune" => chist.cycle.calls[i].ok

\* C3: after a pruning pass in which no remote call failed, the folder holds
\* exactly min(max_backups, k) backups, the ones with the latest createdTime of
\* the k it held when the pass started.
C3_Retention ==
    CleanPassDone =>
        LET pass == chist.cycle.prune
            left == BackupsIn(drive, pass.folder)
        IN  /\ left = NewestN(pass.pre, config.max_backups)
            /\ Cardinality(left) = Min(config.max_backups, Cardinality(pass.pre))

C3_Witness ==
    /\ CleanPassDone
    /\ Cardinality(chist.cycle.prune.pre) >= config.max_backups + 2

\* C4: whatever folder name is configured, the folder the uploads go to is the
\* folder that is pruned, and after cycles that all succeeded it holds at most
\* max_backups backups.
C4_UploadFolderPruned ==
    (sched.pc \in {"sleep", "exit"} /\ chist.all_ok /\ chist.upload_folder # 0) =>
        /\ chist.cycle.prune.folder = chist.upload_folder
        /\ Cardinality(BackupsIn(drive, chist.upload_folder)) <= config.max_backups

LoopMode == ~config.once /\ config.auto_sync

Logged(msg) == \E i \in DOMAIN chist.cycle.log : chist.cycle.log[i] = msg

\* C5: in recurring mode no failure of a cycle ends the loop: only an interrupt
\* does; a failed cycle is logged and followed by one sleep, and a sleep by the
\* next cycle.
C5_LoopSurvivesFailures ==
    /\ [](LoopMode /\ ~chist.interrupted =>
            sched.pc \notin {"exit", "crashed", "stopped", "disabled"})
    /\ [][(LoopMode /\ ~chist.interrupted') =>
            /\ sched.pc = "except" => /\ sched.pc' \in {"sleep", "sleep_err"}
                                      /\ Logged("Sync failed")'
            /\ sched.pc \in {"sleep", "sleep_err"} => sched.pc' = "begin"]_vars

C5_Witness ==
    /\ LoopMode
    /\ sched.pc = "begin"
    /\ chist.cycle.result \in {"False", "raised"}
    /\ \E i \in DOMAIN chist.cycle.calls : ~chist.cycle.calls[i].ok

\* C8: when a pruning pass is over, every surplus record whose own delete call
\* did not fail has been deleted.
C8_DeleteIsolation ==
    LET pass == chist.cycle.prune
    IN  (pass.state = "done" /\ pass.listed) =>
            \A r \in pass.pre \ NewestN(pass.pre, config.max_backups) :
                r.id \notin pass.failed => r \notin drive.files

UploadDone(i) ==
    \E j \in 1..(i - 1) : chist.cycle.calls[j] = Call("files.create", "upload", TRUE)

\* C9: a cycle issues a pruning request (folder lookup, list or delete of the
\* pruning pass) only after its upload has succeeded.
C9_PruneAfterUpload ==
    /\ \A i \in DOMAIN chist.cycle.calls :
            chist.cycle.calls[i].phase = "prune" => UploadDone(i)
    /\ sched.pc \in {"prune", "delete"} => UploadDone(Len(chist.cycle.calls) + 1)

C9_Witness ==
    \E i \in DOMAIN chist.cycle.calls : chist.cycle.calls[i].op = "files.delete"

\* C10: when no cycle is running and none was interrupted, no temporary archive
\* is left.
C10_NoLeftoverArchive ==
    (sched.pc \in {"begin", "sleep", "sleep_err", "exit"} /\ ~chist.interrupted) =>
        DOMAIN tmp = {}

-----------------------------------------------------------------------------
(* Local operations: archive build and restore on one machine *)

InitLocal ==
    /\ \E choice \in InitialTrees : fs = MakeFs(choice)
    /\ \E config_file \in ConfigFiles :
            /\ config = [NoConfig EXCEPT !.cursor_paths = config_file]
            /\ cursor_config_paths = GetCursorConfigPaths(config_file)
    /\ now = 1
    /\ tmp = EmptyTree
    /\ next_tmp = 1
    /\ rst = RestIdle
    /\ hist = NoHist
    /\ drive = [folders |-> <<>>, files |-> {}, seq |-> 0]
    /\ service = FALSE
    /\ sched = [pc |-> "off", cycles |-> 0, backup_path |-> 0, backup_filename |-> "",
                files_to_delete |-> <<>>]
    /\ chist = NoChist

NextLocal ==
    \/ CreateBackupArchive
    \/ RestoreStart
    \/ RestoreBackupCurrent
    \/ RestoreApply
    \/ RestoreReturn
    \/ Tick

SpecLocal == InitLocal /\ [][NextLocal]_vars

-----------------------------------------------------------------------------
(* Claims about archive build and restore *)

\* The restore run in progress or just ended was given an archive that
\* create_backup_archive built from the locations as they were when it started.
RoundTripRun ==
    /\ hist.runs > 0
    /\ rst.path \in DOMAIN tmp
    /\ tmp[rst.path].returned
    /\ tmp[rst.path].zip.entries = AllEntries(hist.pre, cursor_config_paths, PathItems)

\* C1: restoring the archive just built from the same locations completes without
\* error and leaves every location that was not missing with the kind, the
\* relative structure and the file contents it had before the build.
C1_RoundTrip ==
    (RoundTripRun /\ ~hist.env_error) =>
        /\ rst.pc # "raised"
        /\ rst.pc = "returned" =>
            \A k \in DOMAIN cursor_config_paths :
                LET cp == cursor_config_paths[k]
                IN  Exists(hist.pre, cp) =>
                        Subtree(fs, cp.comps) = Subtree(hist.pre, cp.comps)

\* C2: once restore has processed a location that existed when the run started
\* and has an entry in the archive, a rollback copy with the pre-restore content
\* exists at a path other than the location's, whatever the form of the path.
C2_RollbackKept ==
    \A k \in hist.restored :
        LET cp == cursor_config_paths[k]
        IN  Exists(hist.pre, cp) =>
                /\ k \in DOMAIN hist.rollback
                /\ hist.rollback[k] # cp.comps
                /\ Subtree(fs, hist.rollback[k]) = Subtree(hist.pre, cp.comps)

\* C6: when restoring one location raised, the call still attempts every other
\* location that has an entry in the archive and returns instead of raising.
C6_PartialTolerance ==
    (rst.pc \in {"returned", "raised"} /\ hist.failed # {}) =>
        /\ rst.pc = "returned"
        /\ \A k \in hist.archived \cap DOMAIN cursor_config_paths : k \in hist.touched

\* The backup file handed to the current run is missing or is no archive.
NoArchive == rst.path \notin DOMAIN Files \/ ~Files[rst.path].valid

\* C7: a restore that fails because the backup file is missing or cannot be
\* opened as an archive leaves the filesystem exactly as it was: no location is
\* created, modified or removed and no rollback copy is made.
C7_NoMutationWithoutArchive ==
    (hist.runs > 0 /\ NoArchive) => (rst.pc = "raised" /\ fs = hist.pre)

C7_Witness ==
    /\ hist.runs > 0
    /\ rst.path = -3
    /\ rst.pc = "raised"
    /\ \E k \in DOMAIN cursor_config_paths : Exists(fs, cursor_config_paths[k])

-----------------------------------------------------------------------------
(* Claims about the path registry *)

\* C11: with overrides enabled the registry holds all five names, each resolved
\* to its override when config.json supplies one and to the platform default
\* otherwise.
C11_OverridePerName ==
    config.cursor_paths.custom_enabled =>
        /\ DOMAIN cursor_config_paths = Keys
        /\ \A k \in Keys :
                cursor_config_paths[k] =
                    IF k \in DOMAIN config.cursor_paths.paths
                    THEN config.cursor_paths.paths[k]
                    ELSE GetDefaultCursorPaths[k]

-----------------------------------------------------------------------------
(* Claims about one sync cycle and the scheduler *)

\* sync_once has ended (returned or raised) in the current cycle.
CycleEnded == chist.cycle.result # "none"

Did(op, phase) == \E i \in DOMAIN chist.cycle.calls : chist.cycle.calls[i] = Call(op, phase, TRUE)

Times(op, phase) ==
    Cardinality({i \in DOMAIN chist.cycle.calls :
                    chist.cycle.calls[i].op = op /\ chist.cycle.calls[i].phase = phase})

PhaseRank(phase) == CASE phase = "auth" -> 1 [] phase = "build" -> 2
                      [] phase = "upload" -> 3 [] phase = "prune" -> 4

\* C12: a cycle runs authenticate, build, upload, prune in that order, each at
\* most once; sync_once returns True exactly when the credentials file exists and
\* authentication, build and upload succeeded, returns False in every other case,
\* and the log holds the outcome when it returns.
C12_ChainOnceAndOutcome ==
    /\ \A i, j \in DOMAIN chist.cycle.calls :
            i < j => PhaseRank(chist.cycle.calls[i].phase) <= PhaseRank(chist.cycle.calls[j].phase)
    /\ \A op \in {"authenticate", "create_backup_archive"} :
            Times(op, "auth") + Times(op, "build") <= 1
    /\ Times("files.create", "upload") <= 1
    /\ Times("files.list", "prune") <= 1
    /\ CycleEnded =>
            /\ chist.cycle.result \in {"True", "False"}
            /\ chist.cycle.result = "True" <=>
                    /\ config.credentials_exist
                    /\ Did("authenticate", "auth")
                    /\ Did("create_backup_archive", "build")
                    /\ Did("files.create", "upload")
            /\ chist.cycle.result = "True" => Logged("Sync completed successfully")
            /\ chist.cycle.result = "False" =>
                    Logged("Sync failed") \/ Logged("Credentials file does not exist")

\* start_auto_sync was called with auto_sync off.
Disabled == ~config.once /\ ~config.auto_sync

\* C14: with auto_sync disabled start_auto_sync logs that and returns: no cycle
\* starts, no authentication, build or remote request is made, the Drive account
\* does not change, no sleep passes and no error is logged.
C14_DisabledReturnsAtOnce ==
    /\ [](Disabled =>
            /\ sched.pc \in {"start", "disabled"}
            /\ sched.cycles = 0
            /\ chist.cycle.calls = <<>>
            /\ chist.cycle.result = "none"
            /\ ~service
            /\ DOMAIN tmp = {}
            /\ \A i \in DOMAIN chist.cycle.log :
                    chist.cycle.log[i] = "Automatic sync is disabled")
    /\ [][Disabled => (drive' = drive /\ now' = now /\ sched'.pc = "disabled")]_vars

C14_Witness == Disabled /\ sched.pc = "disabled" /\ Logged("Automatic sync is disabled")

\* The interrupt arrived while the loop was in one of its two sleeps.
InterruptedInSleep == chist.interrupted_at \in {"sleep", "sleep_err"}

FolderNames == {DefaultFolderName, config.backup_folder_name}

\* C16: a call of _get_or_create_folder creates a folder exactly when none with
\* the name exists, and then exactly one; once a call for a name has returned,
\* one folder with that name exists and every call for the name in the cycle
\* returned its id.
C16_FolderIdempotent ==
    /\ [](\A i \in DOMAIN chist.cycle.folder_calls :
            LET c == chist.cycle.folder_calls[i]
            IN  /\ FoldersNamed(drive, c.name) = <<c.id>>
                /\ c.created => \A j \in 1..(i - 1) : chist.cycle.folder_calls[j].name # c.name)
    /\ [][\A name \in FolderNames :
            Len(FoldersNamed(drive', name)) =
                IF /\ FoldersNamed(drive, name) = <<>>
                   /\ Len(chist'.cycle.folder_calls) > Len(chist.cycle.folder_calls)
                   /\ chist'.cycle.folder_calls[Len(chist'.cycle.folder_calls)].name = name
                THEN 1
                ELSE Len(FoldersNamed(drive, name))]_vars

C16_Witness ==
    \E i, j \in DOMAIN chist.cycle.folder_calls :
        /\ i < j
        /\ chist.cycle.folder_calls[i].name = chist.cycle.folder_calls[j].name
        /\ chist.cycle.folder_calls[i].created
        /\ ~chist.cycle.folder_calls[j].created

\* One of the two methods that need self.service was called without it.
CalledUnauthenticated ==
    /\ chist.cycle.op \in {"upload_to_drive", "download_latest_backup"}
    /\ ~chist.cycle.authed

\* auto_sync.py runs and the credentials file does not exist.
NoCredentials == sched.pc # "off" /\ ~config.credentials_exist

\* C17: without the credentials file sync_once returns False, the missing file
\* logged, before any effect: it never authenticates, builds no archive, issues
\* no remote request and leaves the Drive account as it is; upload_to_drive and
\* download_latest_backup called on a manager that has not authenticated raise
\* without any remote request.
C17_NoRemoteEffectWithoutCredentials ==
    /\ [](NoCredentials =>
            /\ chist.cycle.calls = <<>>
            /\ chist.cycle.folder_calls = <<>>
            /\ ~service
            /\ DOMAIN tmp = {}
            /\ CycleEnded => chist.cycle.result = "False")
    /\ [](CalledUnauthenticated =>
            /\ chist.cycle.result = "raised"
            /\ chist.cycle.calls = <<>>
            /\ chist.cycle.folder_calls = <<>>)
    /\ [][(NoCredentials \/ (sched'.cycles # sched.cycles /\ CalledUnauthenticated')) =>
            (drive' = drive /\ tmp' = tmp /\ service' = service)]_vars

-----------------------------------------------------------------------------
(* Claims about the archive create_backup_archive builds *)

\* The archives create_backup_archive has returned, while no restore has yet
\* changed the filesystem they were built from.
BuiltArchives == IF hist.runs = 0 THEN {tmp[p].zip : p \in {q \in DOMAIN tmp : tmp[q].returned}}
                 ELSE {}

EntriesOf(z, k) == {a \in DOMAIN z.entries : a[1] = k}

\* C13: a location whose path does not exist when the archive is built has no
\* entry in it, and the build still returns an archive that holds the file of
\* every file location and every regular file of every directory location.
C13_MissingSkipped ==
    \A z \in BuiltArchives : \A k \in DOMAIN cursor_config_paths :
        LET cp == cursor_config_paths[k]
        IN  /\ ~Exists(fs, cp) => EntriesOf(z, k) = {}
            /\ IsFile(fs, cp) => <<k, Basename(cp)>> \in EntriesOf(z, k)
            /\ (Exists(fs, cp) /\ IsDir(fs, cp)) =>
                    \A r \in DOMAIN Subtree(fs, cp.comps) :
                        ~Subtree(fs, cp.comps)[r].dir => <<k>> \o r \in EntriesOf(z, k)

C13_Witness ==
    /\ BuiltArchives # {}
    /\ \E k \in DOMAIN cursor_config_paths : ~Exists(fs, cursor_config_paths[k])
    /\ \E k \in DOMAIN cursor_config_paths :
            Exists(fs, cursor_config_paths[k]) /\ IsDir(fs, cursor_config_paths[k])

\* The names of the content entries of archive z, in the order written.
ContentNames(z) == SelectSeq(z.names, LAMBDA a : a # MetadataName)

\* The regular files of the tree at configured path cp, relative to it.
RegularFiles(f, cp) ==
    {r \in DOMAIN Subtree(f, cp.comps) : ~Subtree(f, cp.comps)[r].dir}

\* C19: an archive create_backup_archive returns holds one metadata entry and,
\* besides it, only entries named <location name>/<relative path>, no name
\* twice: the one entry <name>/<basename> for a file location, one entry per
\* regular file of the tree for a directory location, each with the file's content.
C19_ArchiveContents ==
    \A z \in BuiltArchives :
        LET content == ContentNames(z)
        IN  /\ Len(z.names) = Len(content) + 1
            /\ \A i, j \in DOMAIN z.names : i # j => z.names[i] # z.names[j]
            /\ \A i \in DOMAIN content :
                    /\ Len(content[i]) >= 2
                    /\ content[i][1] \in DOMAIN cursor_config_paths
            /\ DOMAIN z.entries = {content[i] : i \in DOMAIN content}
            /\ \A k \in DOMAIN cursor_config_paths :
                    LET cp == cursor_config_paths[k]
                        mine == {content[i] : i \in {j \in DOMAIN content : content[j][1] = k}}
                    IN  /\ IsFile(fs, cp) =>
                                /\ mine = {<<k, Basename(cp)>>}
                                /\ z.entries[<<k, Basename(cp)>>] = fs[cp.comps].data
                        /\ (Exists(fs, cp) /\ IsDir(fs, cp)) =>
                                /\ mine = {<<k>> \o r : r \in RegularFiles(fs, cp)}
                                /\ \A r \in RegularFiles(fs, cp) :
                                        z.entries[<<k>> \o r] = fs[cp.comps \o r].data

C19_Witness ==
    /\ BuiltArchives # {}
    /\ \E k \in DOMAIN cursor_config_paths : IsFile(fs, cursor_config_paths[k])
    /\ \E k \in DOMAIN cursor_config_paths :
            /\ IsDir(fs, cursor_config_paths[k])
            /\ Cardinality(RegularFiles(fs, cursor_config_paths[k])) >= 2

-----------------------------------------------------------------------------
(* Claims about rollback copies and directory restore *)

\* The paths at or under a rollback copy: some component carries '.backup_'.
RollbackPaths(f) ==
    {p \in DOMAIN f : \E i \in 1..Len(p) : Contains(p[i], ".backup_")}

\* The location the restore loop is at.
CurrentPath == cursor_config_paths[PathItems[rst.i]]

\* C18: no step deletes or changes anything at or under an existing rollback
\* copy, and the rollback path a restore run picks for a location is never a
\* path that exists already, also when two runs fall into the same second.
C18_RollbackNeverReused ==
    [][/\ \A p \in RollbackPaths(fs) : p \in DOMAIN fs' /\ fs'[p] = fs[p]
       /\ (/\ rst.pc = "loop"
           /\ rst'.pc \in {"apply", "raised"}
           /\ Exists(fs, CurrentPath)) =>
                BackupCurrent(CurrentPath, now).comps \notin DOMAIN fs]_vars

\* The archived entry for location k in the backup file of the current run.
ArchivedEntry(k) == Subtree(ExtractAll(Files[rst.path]), <<k>>)

\* The restore run has ended and met no I/O error of the environment.
RunEnded == rst.pc \in {"returned", "raised"} /\ hist.runs > 0 /\ ~hist.env_error

\* The locations of the registry whose archived entry is a directory tree.
DirectoryEntries ==
    IF rst.path \in DOMAIN Files /\ Files[rst.path].valid
    THEN {k \in hist.archived \cap DOMAIN cursor_config_paths : ArchivedEntry(k)[<<>>].dir}
    ELSE {}

\* C20: after restore_from_backup, every location whose archived entry is a
\* directory tree holds exactly the archived tree, with nothing left of what was
\* at the location before.
C20_DirectoryReplaced ==
    RunEnded =>
        \A k \in DirectoryEntries :
            Subtree(fs, cursor_config_paths[k].comps) = ArchivedEntry(k)

-----------------------------------------------------------------------------
(* Claims about sync_down *)

\* The records of the default backup folder whose name contains 'cursor_backup'.
MatchingRecords ==
    IF FoldersNamed(drive, DefaultFolderName) = <<>> THEN {}
    ELSE BackupsIn(drive, FoldersNamed(drive, DefaultFolderName)[1])

\* The matching record with the latest createdTime.
LatestRecord ==
    CHOOSE r \in MatchingRecords : \A o \in MatchingRecords : o.createdTime <= r.createdTime

\* The last method called was sync_down, on an authenticated manager, and none
\* of its remote requests failed.
SyncDownCalled ==
    /\ chist.cycle.op = "sync_down"
    /\ chist.cycle.authed
    /\ \A i \in DOMAIN chist.cycle.calls : chist.cycle.calls[i].ok

\* C21: when the backup folder holds no record whose name contains
\* 'cursor_backup', download_latest_backup returns None and sync_down leaves the
\* filesystem as it is: no location changes and no rollback copy appears. When
\* it holds one, the file downloaded, and the archive restore_from_backup
\* works from, is that of the record with the latest createdTime.
C21_SyncDownLatest ==
    /\ [](SyncDownCalled =>
            /\ MatchingRecords = {} <=> chist.cycle.result = "None"
            /\ chist.cycle.result = "None" => sched.pc = "off"
            /\ MatchingRecords # {} => chist.cycle.result \in {"path", "returned", "raised"})
    /\ [](sched.pc = "down" =>
            /\ MatchingRecords # {}
            /\ tmp[sched.backup_path].zip = LatestRecord.zip
            /\ rst.pc \in {"loop", "apply"} =>
                    /\ rst.path = sched.backup_path
                    /\ rst.temp_dir = ExtractAll(LatestRecord.zip))
    /\ [][(sched.pc = "off" /\ chist'.cycle.op = "sync_down") =>
            (fs' = fs /\ rst' = rst /\ hist' = hist)]_vars

C21_Witness ==
    /\ SyncDownCalled
    /\ chist.cycle.result = "returned"
    /\ Cardinality(MatchingRecords) >= 2
    /\ fs # EmptyTree

-----------------------------------------------------------------------------
(* Claims about what the operations other than restore leave alone *)

\* The paths a registry can hold for a location: the default and the custom one.
LocationRoots ==
    {GetDefaultCursorPaths[k].comps : k \in Keys} \cup {CustomPath(k).comps : k \in Keys}

\* C22: outside restore_from_backup no step creates, modifies or deletes
\* anything at or under a config location path: path resolution in the
\* constructor, validate_paths, authenticate, create_backup_archive, upload,
\* download, pruning, sync_once and the scheduler loop leave every location as
\* it was.
C22_LocationsReadOnly ==
    [][rst.pc \notin {"loop", "apply"} =>
            \A p \in LocationRoots : Subtree(fs', p) = Subtree(fs, p)]_vars

C22_Witness ==
    /\ sched.cycles = MaxCycles
    /\ chist.cycle.result = "True"
    /\ \E i \in DOMAIN chist.cycle.calls : chist.cycle.calls[i].op = "files.delete"
    /\ Exists(fs, TokenPath)
    /\ fs # HomeFs
    /\ \A p \in LocationRoots : Subtree(fs, p) = Subtree(HomeFs, p)

-----------------------------------------------------------------------------
(* Claims about two processes pruning one folder *)

\* Each process has finished a pruning pass and neither is inside a cycle.
BothPassesDone ==
    \A i \in Instances : sched[i].pc = "begin" /\ chist[i].passes > 0

\* No request failed for a reason other than the record being gone.
NoEnvError == \A i \in Instances : ~chist[i].env_error

\* The ids process i sent a delete request for.
DeleteRequests(i) == {chist[i].deletes[j].id : j \in DOMAIN chist[i].deletes}

\* A record both processes sent a delete request for.
DoubleDelete == DeleteRequests(1) \cap DeleteRequests(2) # {}

UnderPruned == Cardinality(MatchingRecords) > config.max_backups

\* C23: two processes pruning the same folder take no lock between listing and
\* deleting. Both can list the same surplus record and both send a delete for
\* it: a delete that finds its record gone is always such a double delete, it
\* fails, and it ends that process's pass. The folder can hold more than
\* max_backups records when both passes are over; that takes, besides the
\* race, a request that failed on its way.
C23_PruningRace ==
    /\ \A i \in Instances : \A j \in DOMAIN chist[i].deletes :
            LET q == chist[i].deletes[j]
            IN  q.gone =>
                    /\ ~q.ok
                    /\ \E o \in Instances \ {i} : \E n \in DOMAIN chist[o].deletes :
                            chist[o].deletes[n] = [id |-> q.id, ok |-> TRUE, gone |-> FALSE]
    /\ (BothPassesDone /\ UnderPruned) => ~NoEnvError

\* Both passes are over, a double delete ended the pass of a process that met no
\* other failure, and a record that process had listed as surplus is still there.
C23_Witness ==
    /\ BothPassesDone
    /\ DoubleDelete
    /\ UnderPruned
    /\ \E i \in Instances :
            /\ ~chist[i].env_error
            /\ \E r \in MatchingRecords : r.id \in chist[i].surplus

-----------------------------------------------------------------------------
(* Claims about the locations a restore passes over *)

\* The registered locations the backup file of the current run has no
\* top-level entry for.
NotArchived == DOMAIN cursor_config_paths \ hist.archived

\* C24: during and after a restore, a registered location without a top-level
\* entry in the archive is as it was when the run started, whatever happens to
\* the other locations: nothing at or under its path is written or removed, and
\* no rollback copy of it exists that was not there before.
C24_UnarchivedUntouched ==
    hist.runs > 0 =>
        \A k \in NotArchived :
            LET cp == cursor_config_paths[k]
            IN  /\ Subtree(fs, cp.comps) = Subtree(hist.pre, cp.comps)
                /\ k \notin DOMAIN hist.rollback
                /\ \A t \in 1..MaxTime :
                        Subtree(fs, BackupCurrent(cp, t).comps)
                            = Subtree(hist.pre, BackupCurrent(cp, t).comps)

C24_Witness ==
    /\ rst.pc = "returned"
    /\ hist.restored # {}
    /\ DOMAIN hist.rollback # {}
    /\ \E k \in NotArchived : IsFile(hist.pre, cursor_config_paths[k])
    /\ \E k \in NotArchived : IsDir(hist.pre, cursor_config_paths[k])

-----------------------------------------------------------------------------
(* Claims about what pruning leaves alone *)

\* The records a step removes from the account.
Deleted == drive.files \ drive'.files

\* C25: whatever a step of a sync cycle deletes is a record of the configured
\* backup folder whose name contains 'cursor_backup', and is not the record
\* this cycle uploaded; so every record of another folder and every other file
\* of the backup folder outlasts any sequence of cycles.
C25_PruneOnlyBackups ==
    [][\A r \in Deleted :
            /\ FoldersNamed(drive, config.backup_folder_name) # <<>>
            /\ r.parent = FoldersNamed(drive, config.backup_folder_name)[1]
            /\ Contains(r.name, "cursor_backup")
            /\ r.id # chist.cycle.uploaded]_vars

\* The second cycle has pruned the folder it uploaded to down to one backup:
\* its own; the file that is no backup and the other folder's file are there.
C25_Witness ==
    /\ sched.cycles = MaxCycles
    /\ chist.cycle.prune.state = "done"
    /\ config.backup_folder_name = DefaultFolderName
    /\ config.max_backups = 1
    /\ \E i \in DOMAIN chist.cycle.calls : chist.cycle.calls[i] = Call("files.delete", "prune", TRUE)
    /\ \E r \in drive.files : r.id = chist.cycle.uploaded /\ BackupsIn(drive, r.parent) = {r}
    /\ \E r \in drive.files : r.name = "notes.txt" /\ r.parent = chist.cycle.prune.folder
    /\ \E r \in drive.files : r.parent # chist.cycle.prune.folder /\ Contains(r.name, "cursor_backup")

====
